---- MODULE Spec2Model ----
(***************************************************************************)
(* Model of email_extractor_app.py: extract_emails_from_files (the regex   *)
(* scan of spreadsheet cells, docx paragraphs / table cells and PDF pages, *)
(* the per-file try/except, the log callback) and the part of main() that  *)
(* starts an extraction from the "Extract Emails" button.                  *)
(*                                                                         *)
(* Text is a sequence of one-character strings, so that the regular        *)
(* expression, os.path.splitext, str.lower and the string comparison used  *)
(* by sorted() are computed character by character.                        *)
(***************************************************************************)
EXTENDS Integers, Sequences, FiniteSets, TLC

----------------------------------------------------------------------------
(* Characters.                                                             *)

Lowers == <<"a","b","c","d","e","f","g","h","i","j","k","l","m",
            "n","o","p","q","r","s","t","u","v","w","x","y","z">>

Uppers == <<"A","B","C","D","E","F","G","H","I","J","K","L","M",
            "N","O","P","Q","R","S","T","U","V","W","X","Y","Z">>

Digits == <<"0","1","2","3","4","5","6","7","8","9">>

Range(f) == {f[i] : i \in DOMAIN f}

\* The printable ASCII characters by code point (the quotes 34, 39 and 96 and the
\* backslash, 92, are left out): each run of consecutive code points with the
\* code point of its first character.
AsciiRuns == << [first |-> 32,  chars |-> <<" ","!">>],
               [first |-> 35,  chars |-> <<"#","$","%","&">>],
               [first |-> 40,  chars |-> <<"(",")","*","+",",","-",".","/">>],
               [first |-> 48,  chars |-> Digits],
               [first |-> 58,  chars |-> <<":",";","<","=",">","?","@">>],
               [first |-> 65,  chars |-> Uppers],
               [first |-> 91,  chars |-> <<"[">>],
               [first |-> 93,  chars |-> <<"]","^","_">>],
               [first |-> 97,  chars |-> Lowers],
               [first |-> 123, chars |-> <<"{","|","}","~">>] >>

\* ord(c): the code point of a character.
Ord(c) ==
    LET r == CHOOSE k \in DOMAIN AsciiRuns : c \in Range(AsciiRuns[k].chars)
        i == CHOOSE k \in DOMAIN AsciiRuns[r].chars : AsciiRuns[r].chars[k] = c
    IN  AsciiRuns[r].first + i - 1

Alpha == Range(Lowers) \cup Range(Uppers)

Alnum == Alpha \cup Range(Digits)

\* \w of the re module (ASCII part): what \b looks at.
WordCh == Alnum \cup {"_"}

\* [a-zA-Z0-9._%+-]
LocalCh == Alnum \cup {".", "_", "%", "+", "-"}

\* [a-zA-Z0-9.-]
DomainCh == Alnum \cup {".", "-"}

\* [a-zA-Z]
TldCh == Alpha

\* {2,}: the least number of letters of the top-level label.
MinTld == 2

----------------------------------------------------------------------------
(* email_pattern.findall: leftmost match, greedy quantifiers, backtracking. *)

\* \b at the gap before position p (1..Len(s)+1).
Boundary(s, p) ==
    LET before == p > 1 /\ s[p - 1] \in WordCh
        after  == p <= Len(s) /\ s[p] \in WordCh
    IN  before # after

RECURSIVE RunEnd(_, _, _)
\* The first position from i on whose character is not in class (greedy run).
RunEnd(s, i, class) ==
    IF i <= Len(s) /\ s[i] \in class THEN RunEnd(s, i + 1, class) ELSE i

RECURSIVE TldBack(_, _, _)
\* [a-zA-Z]{2,}\b with the label at t..e-1, giving back letters on failure.
\* The end of the match (exclusive), or 0.
TldBack(s, t, e) ==
    IF e - t < MinTld THEN 0
    ELSE IF Boundary(s, e) THEN e
    ELSE TldBack(s, t, e - 1)

RECURSIVE DomainBack(_, _, _)
\* [a-zA-Z0-9.-]+\.[a-zA-Z]{2,}\b with the domain at d..k-1.
DomainBack(s, d, k) ==
    IF k <= d THEN 0
    ELSE LET r == IF k <= Len(s) /\ s[k] = "."
                  THEN TldBack(s, k + 1, RunEnd(s, k + 1, TldCh))
                  ELSE 0
         IN  IF r # 0 THEN r ELSE DomainBack(s, d, k - 1)

RECURSIVE LocalBack(_, _, _)
\* [a-zA-Z0-9._%+-]+@... with the local part at i..j-1.
LocalBack(s, i, j) ==
    IF j <= i THEN 0
    ELSE LET r == IF j <= Len(s) /\ s[j] = "@"
                  THEN DomainBack(s, j + 1, RunEnd(s, j + 1, DomainCh))
                  ELSE 0
         IN  IF r # 0 THEN r ELSE LocalBack(s, i, j - 1)

\* The end (exclusive) of the pattern's match starting at i, or 0.
MatchAt(s, i) ==
    IF Boundary(s, i) THEN LocalBack(s, i, RunEnd(s, i, LocalCh)) ELSE 0

RECURSIVE FindAllFrom(_, _)
FindAllFrom(s, i) ==
    IF i > Len(s) THEN <<>>
    ELSE LET e == MatchAt(s, i)
         IN  IF e # 0 THEN <<SubSeq(s, i, e - 1)>> \o FindAllFrom(s, e)
             ELSE FindAllFrom(s, i + 1)

\* email_pattern.findall(text): the list of matches, left to right.
FindAll(text) == FindAllFrom(text, 1)

----------------------------------------------------------------------------
(* sorted(email_set): ascending by code points, a proper prefix first.     *)

RECURSIVE StrLess(_, _)
StrLess(a, b) ==
    IF b = <<>> THEN FALSE
    ELSE IF a = <<>> THEN TRUE
    ELSE IF a[1] # b[1] THEN Ord(a[1]) < Ord(b[1])
    ELSE StrLess(Tail(a), Tail(b))

RECURSIVE Unsorted(_)
\* list(email_set): the elements in no particular order (here: descending).
Unsorted(set) ==
    IF set = {} THEN <<>>
    ELSE LET last == CHOOSE x \in set : \A y \in set \ {x} : StrLess(y, x)
         IN  <<last>> \o Unsorted(set \ {last})

RECURSIVE Sorted(_)
Sorted(set) ==
    IF set = {} THEN <<>>
    ELSE LET least == CHOOSE x \in set : \A y \in set \ {x} : StrLess(x, y)
         IN  <<least>> \o Sorted(set \ {least})

----------------------------------------------------------------------------
(* File names: os.path.splitext(filename)[1].lower().                      *)

\* str.lower() on one character.
LowerCh(c) ==
    IF c \in Range(Uppers)
    THEN Lowers[CHOOSE i \in DOMAIN Uppers : Uppers[i] = c]
    ELSE c

Lower(s) == [i \in DOMAIN s |-> LowerCh(s[i])]

\* The greatest position of character c in s, or 0 (str.rfind, 1-based).
RFind(s, c) ==
    IF \E i \in DOMAIN s : s[i] = c
    THEN CHOOSE i \in DOMAIN s : s[i] = c /\ \A j \in DOMAIN s : s[j] = c => j <= i
    ELSE 0

\* os.path.splitext(p)[1]: from the last dot of the last path component on,
\* unless only dots precede it in that component.
SplitExt(p) ==
    LET sepIndex == RFind(p, "/")
        dotIndex == RFind(p, ".")
    IN  IF dotIndex > sepIndex
           /\ \E k \in (sepIndex + 1)..(dotIndex - 1) : p[k] # "."
        THEN SubSeq(p, dotIndex, Len(p))
        ELSE <<>>

FileExtension(filename) == Lower(SplitExt(filename))

ExcelExtensions == { <<".","x","l","s">>, <<".","x","l","s","x">>,
                     <<".","x","l","s","m">> }

DocxExtension == <<".","d","o","c","x">>

PdfExtension == <<".","p","d","f">>

----------------------------------------------------------------------------
(* What the readers hand to the scan.  A unit is a text, a missing value   *)
(* (NaN cell, page without text) or the point where the library raises.    *)

Text(t)  == [tag |-> "text", text |-> t]

Missing  == [tag |-> "none"]

Raise(e) == [tag |-> "raise", error |-> e]

NoError  == "no error"

RECURSIVE Concat(_)
Concat(seqs) == IF seqs = <<>> THEN <<>> ELSE Head(seqs) \o Concat(Tail(seqs))

IsRaise(u)   == u.tag = "raise"

NotMissing(u) == u.tag # "none"

\* `if text:` -- a page whose extract_text() is None or "" is passed over.
Truthy(u) == u.tag = "raise" \/ (u.tag = "text" /\ u.text # <<>>)

\* pd.ExcelFile(f); per sheet pd.read_excel (which may raise); per column
\* df[column].dropna(); each remaining cell is scanned.  A sheet's columns
\* are those of the DataFrame read_excel returns: the cells below the header
\* row, which pandas takes as the column labels.
SpreadsheetUnits(body) ==
    IF body.fmt # "workbook" THEN <<Raise(body.openError)>>
    ELSE Concat([k \in DOMAIN body.sheets |->
            IF IsRaise(body.sheets[k]) THEN <<body.sheets[k]>>
            ELSE Concat([c \in DOMAIN body.sheets[k].columns |->
                    SelectSeq(body.sheets[k].columns[c], NotMissing)])])

\* Document(f); every paragraph, then every cell of every row of every table.
DocxTableUnits(body) ==
    Concat([t \in DOMAIN body.tables |->
        Concat([r \in DOMAIN body.tables[t] |-> body.tables[t][r]])])

\* The paragraphs alone, the tables forgotten.
DocxParagraphsOnly(body) ==
    IF body.fmt # "document" THEN <<Raise(body.openError)>>
    ELSE body.paragraphs

DocxUnits(body) ==
    IF body.fmt # "document" THEN <<Raise(body.openError)>>
    ELSE body.paragraphs \o DocxTableUnits(body)

\* PyPDF2.PdfReader(f); per page extract_text() (which may raise), scanned
\* when truthy.
PdfUnits(body) ==
    IF body.fmt # "pdf" THEN <<Raise(body.openError)>>
    ELSE SelectSeq(body.pages, Truthy)

RECURSIVE ScanUnits(_, _)
\* email_set.update(email_pattern.findall(u)) for each unit in turn, up to
\* the first raise: the set so far and the error (or NoError).
ScanUnits(units, set) ==
    IF units = <<>> THEN [emails |-> set, error |-> NoError]
    ELSE IF IsRaise(Head(units)) THEN [emails |-> set, error |-> Head(units).error]
    ELSE ScanUnits(Tail(units), set \cup Range(FindAll(Head(units).text)))

----------------------------------------------------------------------------
(* The log callback.                                                       *)

\* if log_callback: -- None is falsy, a function is truthy.
\* Callbacks: "none" (log_callback=None), "normal" (appends the message and
\* returns), "main" (main's log_callback: log() appends the message to
\* st.session_state.logs and calls st.experimental_rerun(), which raises
\* streamlit's RerunException, a BaseException that is no Exception).

\* log_callback(message): the log afterwards and what the call raised.
Invoke(callback, log, message) ==
    CASE callback = "none"   -> [logs |-> log, raised |-> "TypeError"]
      [] callback = "normal" -> [logs |-> Append(log, message), raised |-> "no"]
      [] callback = "main"   -> [logs |-> Append(log, message), raised |-> "rerun"]

\* The call without the `if log_callback` guard.
NotifyUnguarded(callback, log, message) == Invoke(callback, log, message)

\* if log_callback: log_callback(message)
Notify(callback, log, message) ==
    IF callback = "none" THEN [logs |-> log, raised |-> "no"]
    ELSE Invoke(callback, log, message)

\* enumerate(files) without start=1.
ProcessingMsgZeroBased(i, n, filename) ==
    [kind |-> "Processing", idx |-> i - 1, total |-> n, name |-> filename]

ProcessingMsg(i, n, filename) ==
    [kind |-> "Processing", idx |-> i, total |-> n, name |-> filename]

\* The message without the file name.
UnsupportedMsgNoName(filename) == [kind |-> "Unsupported", name |-> <<>>]

UnsupportedMsg(filename) == [kind |-> "Unsupported", name |-> filename]

ErrorMsg(filename, e) == [kind |-> "Error", name |-> filename, error |-> e]

\* No except clause: whatever the try body raised leaves the function.
ExceptMissing(callback, log, filename, raisedKind, e) ==
    [logs |-> log, raised |-> raisedKind]

\* The error message sent whether or not the try body raised (a finally).
ExceptAlwaysLogs(callback, log, filename, raisedKind, e) ==
    IF raisedKind = "rerun" THEN [logs |-> log, raised |-> raisedKind]
    ELSE Notify(callback, log, ErrorMsg(filename, e))

\* except Exception as e: if log_callback: log_callback("Error processing ...").
\* raisedKind is what the try body raised: "no", "rerun" (passes through the
\* clause) or an Exception, with e its text.
Except(callback, log, filename, raisedKind, e) ==
    IF raisedKind \in {"no", "rerun"} THEN [logs |-> log, raised |-> raisedKind]
    ELSE Notify(callback, log, ErrorMsg(filename, e))

\* A set that outlives the call (a module-level or default-argument set).
KeepEmailSet(old) == old

\* email_set = set() at the start of every call.
NewEmailSet(old) == {}

----------------------------------------------------------------------------
(* Inputs.                                                                 *)

MaxFiles == 2

T_two  == <<"b","o","b","@","x",".","o","r","g",","," ","B","o","b","@","x",".","o","r","g">>
T_al   == <<"T","o",":"," ","a","l","@","y",".","i","o","!">>
T_bob  == <<"<","b","o","b","@","x",".","o","r","g",">">>
T_cy   == <<"c","y","@","z",".","d","e">>
T_short == <<"a","@","b",".","c">>
T_eve  == <<"e","v","e","@","w",".","u","s"," ","a","l","@","y",".","i","o">>
T_dot  == <<"c","y","@","z",".","d","e",".">>

XlsxFile ==
    [name |-> <<"a",".","X","L","S","X">>,
     body |-> [fmt |-> "workbook",
               sheets |-> << [tag |-> "sheet",
                              columns |-> << <<Text(T_two), Missing>>,
                                             <<Text(T_al)>> >>] >>]]

DocxFile ==
    [name |-> <<"b",".","d","o","c","x">>,
     body |-> [fmt |-> "document",
               paragraphs |-> <<Text(T_bob)>>,
               tables |-> << << <<Text(T_cy), Text(T_short)>> >> >>]]

\* The second page has text, the third makes extract_text() raise.
BadPdfFile ==
    [name |-> <<"c",".","p","d","f">>,
     body |-> [fmt |-> "pdf",
               pages |-> <<Missing, Text(T_eve), Raise("bad stream")>>]]

PdfFile ==
    [name |-> <<"e",".","p","d","f">>,
     body |-> [fmt |-> "pdf", pages |-> <<Text(<<>>), Text(T_dot)>>]]

PngFile ==
    [name |-> <<"d",".","p","n","g">>,
     body |-> [fmt |-> "image", openError |-> "not a supported file"]]

\* Not a workbook at all: pd.ExcelFile raises on opening it.
CorruptFile ==
    [name |-> <<"f",".","x","l","s","m">>,
     body |-> [fmt |-> "garbage", openError |-> "File is not a zip file"]]

FilePool == {XlsxFile, DocxFile, BadPdfFile, PdfFile, PngFile, CorruptFile}

Batches == UNION {[1..n -> FilePool] : n \in 0..MaxFiles}

----------------------------------------------------------------------------
(* State.                                                                  *)

VARIABLES
    files,         \* the batch of the current call
    log_callback,  \* "none", "normal" or "main"
    pc,            \* "idle", "loop", "try", "returned", "aborted"
    idx,           \* enumerate(files, start=1): the file last announced
    email_set,
    logs,          \* the messages the callback has collected
    result,        \* the returned list, once pc = "returned"
    earlier        \* what the caller keeps of its last returned call while
                   \* it submits the same batch again: <<>> or one record

vars == <<files, log_callback, pc, idx, email_set, logs, result, earlier>>

total_files == Len(files)

uploaded_file == files[idx]

file_extension == FileExtension(uploaded_file.name)

Init ==
    /\ files = <<>>
    /\ log_callback = "none"
    /\ pc = "idle"
    /\ idx = 0
    /\ email_set = {}
    /\ logs = <<>>
    /\ result = <<>>
    /\ earlier = <<>>

\* A new call: a fresh set, loop not yet entered.  The caller keeps the last
\* returned list for comparison when it submits the identical batch again.
Begin(batch, callback) ==
    /\ pc \in {"idle", "returned", "aborted"}
    /\ files' = batch
    /\ log_callback' = callback
    /\ email_set' = NewEmailSet(email_set)
    /\ idx' = 0
    /\ logs' = <<>>
    /\ result' = <<>>
    /\ pc' = "loop"
    /\ earlier' = IF batch # files THEN <<>>
                  ELSE IF pc = "returned"
                       THEN <<[log_callback |-> log_callback, result |-> result]>>
                       ELSE earlier

\* extract_emails_from_files(files, log_callback) called directly, with no
\* callback or with one that collects the messages and returns.
Call ==
    \E batch \in Batches, callback \in {"none", "normal"} :
        Begin(batch, callback)

\* main: the "Extract Emails" button with uploaded files; the session's logs
\* are reset and the extraction runs with main's log_callback.
ClickExtract ==
    \E batch \in Batches :
        /\ batch # <<>>
        /\ Begin(batch, "main")

\* Where the loop goes on after a statement that raised (or not).
Continue(raised) == IF raised = "no" THEN "loop" ELSE "aborted"

\* The head of the loop body: the next file and its "Processing" message,
\* which is sent outside the try.
Announce ==
    /\ pc = "loop"
    /\ idx < total_files
    /\ idx' = idx + 1
    /\ LET out == Notify(log_callback, logs,
                         ProcessingMsg(idx + 1, total_files, files[idx + 1].name))
       IN  /\ logs' = out.logs
           /\ pc' = IF out.raised = "no" THEN "try" ELSE "aborted"
    /\ UNCHANGED <<files, log_callback, email_set, result, earlier>>

\* A reader branch of the try: the units are scanned until one raises, and
\* the except clause reports the error.
Scan(units) ==
    LET scan == ScanUnits(units, email_set)
        out  == Except(log_callback, logs, uploaded_file.name,
                       IF scan.error = NoError THEN "no" ELSE "Exception",
                       scan.error)
    IN  /\ email_set' = scan.emails
        /\ logs' = out.logs
        /\ pc' = Continue(out.raised)
        /\ UNCHANGED <<files, log_callback, idx, result, earlier>>

ReadSpreadsheet ==
    /\ pc = "try"
    /\ file_extension \in ExcelExtensions
    /\ Scan(SpreadsheetUnits(uploaded_file.body))

ReadDocx ==
    /\ pc = "try"
    /\ file_extension = DocxExtension
    /\ Scan(DocxUnits(uploaded_file.body))

ReadPdf ==
    /\ pc = "try"
    /\ file_extension = PdfExtension
    /\ Scan(PdfUnits(uploaded_file.body))

\* The else branch: the message is sent inside the try.
Unsupported ==
    /\ pc = "try"
    /\ file_extension \notin ExcelExtensions \cup {DocxExtension, PdfExtension}
    /\ LET sent == Notify(log_callback, logs, UnsupportedMsg(uploaded_file.name))
           out  == Except(log_callback, sent.logs, uploaded_file.name,
                          sent.raised, "object is not callable")
       IN  /\ logs' = out.logs
           /\ pc' = Continue(out.raised)
    /\ UNCHANGED <<files, log_callback, idx, email_set, result, earlier>>

\* return sorted(email_set)
Return ==
    /\ pc = "loop"
    /\ idx = total_files
    /\ result' = Sorted(email_set)
    /\ pc' = "returned"
    /\ UNCHANGED <<files, log_callback, idx, email_set, logs, earlier>>

Next ==
    \/ Call
    \/ ClickExtract
    \/ Announce
    \/ ReadSpreadsheet
    \/ ReadDocx
    \/ ReadPdf
    \/ Unsupported
    \/ Return

Spec == Init /\ [][Next]_vars

----------------------------------------------------------------------------
(* What a batch holds, read off the files themselves.                      *)

Supported(f) ==
    FileExtension(f.name) \in ExcelExtensions \cup {DocxExtension, PdfExtension}

\* The format the reader chosen by the extension expects.
ExpectedFmt(f) ==
    CASE FileExtension(f.name) \in ExcelExtensions -> "workbook"
      [] FileExtension(f.name) = DocxExtension     -> "document"
      [] FileExtension(f.name) = PdfExtension      -> "pdf"
      [] OTHER                                     -> "unsupported"

\* Reading the file raises somewhere: on opening it, on a sheet, on a page.
Fails(f) ==
    /\ Supported(f)
    /\ \/ f.body.fmt # ExpectedFmt(f)
       \/ /\ f.body.fmt = "workbook"
          /\ \E k \in DOMAIN f.body.sheets : f.body.sheets[k].tag = "raise"
       \/ /\ f.body.fmt = "pdf"
          /\ \E k \in DOMAIN f.body.pages : f.body.pages[k].tag = "raise"

\* Every text unit of a supported file: cells, paragraphs, table cells, pages.
TextUnits(f) ==
    LET b == f.body
        texts(units) == {units[k].text : k \in {j \in DOMAIN units : units[j].tag = "text"}}
    IN  IF ~Supported(f) \/ b.fmt # ExpectedFmt(f) THEN {}
        ELSE CASE b.fmt = "workbook" ->
                    UNION { UNION {texts(b.sheets[k].columns[c]) : c \in DOMAIN b.sheets[k].columns} :
                             k \in {j \in DOMAIN b.sheets : b.sheets[j].tag = "sheet"} }
               [] b.fmt = "document" ->
                    texts(b.paragraphs) \cup
                    UNION { UNION {texts(b.tables[t][r]) : r \in DOMAIN b.tables[t]} :
                             t \in DOMAIN b.tables }
               [] b.fmt = "pdf" -> texts(b.pages)

\* The addresses found in the text units of a file.
Addresses(f) == UNION {Range(FindAll(t)) : t \in TextUnits(f)}

AddressesOf(fs) == UNION {Addresses(fs[k]) : k \in DOMAIN fs}

\* Plain string order, stated by the first position where two strings differ.
Precedes(a, b) ==
    \E k \in 1..(Len(b)) :
        /\ \A j \in 1..(k - 1) : j <= Len(a) /\ a[j] = b[j]
        /\ \/ k = Len(a) + 1
           \/ k <= Len(a) /\ Ord(a[k]) < Ord(b[k])

\* The positions of the "Processing" messages in the log.
ProcessingAt == {p \in DOMAIN logs : logs[p].kind = "Processing"}

\* The position of the "Processing" message that opens the part of the log
\* position p lies in (0 when none precedes p).
Opening(p) ==
    IF \E q \in ProcessingAt : q <= p
    THEN CHOOSE q \in ProcessingAt : q <= p /\ \A r \in ProcessingAt : r <= p => r <= q
    ELSE 0

\* The messages that follow the "Processing" message of file i, up to the next.
MessagesAfter(i) ==
    {p \in DOMAIN logs : /\ logs[p].kind # "Processing"
                         /\ Opening(p) # 0
                         /\ logs[Opening(p)].idx = i}

----------------------------------------------------------------------------
(* The claims.                                                             *)

\* C1: for every batch and every callback, the returned list has no
\* duplicates and is sorted ascending by plain case-sensitive string order
\* (each entry strictly precedes the next, an upper-case letter before a
\* lower-case one).
C1_SortedNoDuplicates ==
    pc = "returned" =>
        /\ \A i \in 1..(Len(result) - 1) : Precedes(result[i], result[i + 1])
        /\ \A i, j \in DOMAIN result : i # j => result[i] # result[j]

\* A returned list of three or more addresses, two of which differ only in case.
C1_Witness ==
    /\ pc = "returned"
    /\ Len(result) >= 3
    /\ \E i, j \in DOMAIN result : i # j /\ Lower(result[i]) = Lower(result[j])

\* C2 (as stated, for any callback): when file k raises, the call returns and
\* exactly one "Error processing file" message naming file k was emitted.
C2_OneErrorMessagePerFailure ==
    /\ log_callback # "main" => pc # "aborted"
    /\ pc = "returned" =>
          \A k \in DOMAIN files :
              Fails(files[k]) =>
                  Cardinality({p \in MessagesAfter(k) :
                                 logs[p].kind = "Error" /\ logs[p].name = files[k].name}) = 1

\* C2 (amended): with a callback that returns normally a failing file never
\* aborts the call; once returned, every file was announced, each failing
\* file has exactly one "Error" message (naming it, after its "Processing"
\* message), no other file has one, and every supported file that does not
\* fail, before or after a failing one, has all its addresses in the result.
\* With no callback the call returns as well.
C2_FailureDoesNotAbort ==
    /\ log_callback # "main" => pc # "aborted"
    /\ (pc = "returned" /\ log_callback = "normal") =>
          /\ idx = total_files
          /\ \A k \in DOMAIN files :
                /\ \E p \in ProcessingAt : logs[p].idx = k
                /\ Cardinality({p \in MessagesAfter(k) : logs[p].kind = "Error"})
                       = IF Fails(files[k]) THEN 1 ELSE 0
                /\ \A p \in MessagesAfter(k) :
                       logs[p].kind = "Error" => logs[p].name = files[k].name
                /\ ~Fails(files[k]) => Addresses(files[k]) \subseteq Range(result)

\* A returned call whose first file failed and whose second file gave addresses.
C2_Witness ==
    /\ pc = "returned"
    /\ log_callback = "normal"
    /\ Len(files) = 2
    /\ Fails(files[1])
    /\ ~Fails(files[2])
    /\ Addresses(files[2]) # {}
    /\ \E p \in DOMAIN logs : logs[p].kind = "Error"

\* C3: a file whose parsing raises contributes no address: the returned list
\* holds exactly the addresses of the supported files that do not fail.
C3_FailingFileContributesNothing ==
    pc = "returned" =>
        Range(result) = AddressesOf(SelectSeq(files, LAMBDA f : ~Fails(f)))

\* C4 (as stated): one unsupported file, a callback that collects: an empty
\* list and exactly one log line, the "Unsupported file type" one.
C4_OneLogLine ==
    (/\ pc = "returned"
     /\ log_callback = "normal"
     /\ Len(files) = 1
     /\ ~Supported(files[1])) =>
        /\ result = <<>>
        /\ logs = <<UnsupportedMsg(files[1].name)>>

\* C4 (amended): one unsupported file, a callback that returns normally: the
\* call does not raise, returns an empty list and emits exactly two log lines,
\* "Processing file 1/1: <name>" and then "Unsupported file type: <name>".
C4_TwoLogLines ==
    /\ (log_callback = "normal" /\ Len(files) = 1 /\ ~Supported(files[1])) =>
          pc # "aborted"
    /\ (/\ pc = "returned"
        /\ log_callback = "normal"
        /\ Len(files) = 1
        /\ ~Supported(files[1])) =>
          /\ result = <<>>
          /\ Len(logs) = 2
          /\ logs[1].kind = "Processing" /\ logs[1].idx = 1 /\ logs[1].total = 1
          /\ logs[1].name = files[1].name
          /\ logs[2].kind = "Unsupported" /\ logs[2].name = files[1].name

C4_Witness ==
    /\ pc = "returned"
    /\ log_callback = "normal"
    /\ Len(files) = 1
    /\ ~Supported(files[1])
    /\ logs # <<>>

\* C5: an extraction started from main's button with a non-empty batch goes
\* through every file and reaches the return: it never stops short.
C5_MainRunCompletes ==
    (log_callback = "main" /\ pc \notin {"loop", "try"}) =>
        (pc = "returned" /\ idx = total_files)

C7_DependsOnBatchOnly ==
    /\ (pc = "loop" /\ idx = 0) => email_set = {}
    /\ pc = "returned" => Range(result) \subseteq AddressesOf(files)
    /\ (pc = "returned" /\ earlier # <<>>) => earlier[1].result = result

\* The identical batch returned twice with the same callback, a non-empty list.
C7_Witness ==
    /\ pc = "returned"
    /\ earlier # <<>>
    /\ earlier[1].log_callback = log_callback
    /\ result # <<>>

\* C8: with a callback that returns normally, "Processing file i/N: <name>"
\* is emitted once for each file announced so far, in input order, N of them
\* once returned; every other message comes after the "Processing" message of
\* the file it is about and before that of the next file.
C8_ProcessingInOrder ==
    log_callback = "normal" =>
        /\ Cardinality(ProcessingAt) = idx
        /\ \A p \in ProcessingAt :
              /\ logs[p].idx \in 1..idx
              /\ logs[p].total = total_files
              /\ logs[p].name = files[logs[p].idx].name
        /\ \A p, q \in ProcessingAt : p < q => logs[p].idx < logs[q].idx
        /\ \A p \in DOMAIN logs \ ProcessingAt :
              /\ Opening(p) # 0
              /\ logs[p].name = logs[Opening(p)].name
        /\ pc = "returned" => idx = total_files

\* Two files, the first with a message of its own before the second's
\* "Processing" message.
C8_Witness ==
    /\ log_callback = "normal"
    /\ pc = "returned"
    /\ Len(files) = 2
    /\ Len(logs) >= 3
    /\ logs[2].kind # "Processing"
    /\ logs[3].kind = "Processing"

\* C9: with a callback that returns normally each announced file has its
\* "Processing" message and at most one further message ("Unsupported" or
\* "Error"), so the log never holds more than 2N messages (the progress
\* fraction len(logs)/(2N) is at most 1), and during a call the log only grows.
C9_AtMostTwoPerFile ==
    /\ [](log_callback = "normal" =>
            /\ \A i \in 1..idx :
                  /\ Cardinality({p \in ProcessingAt : logs[p].idx = i}) = 1
                  /\ Cardinality(MessagesAfter(i)) \in {0, 1}
                  /\ \A p \in MessagesAfter(i) : logs[p].kind \in {"Unsupported", "Error"}
            /\ Len(logs) <= 2 * total_files)
    /\ [][(log_callback = "normal" /\ pc \in {"loop", "try"}) =>
            (Len(logs') >= Len(logs) /\ SubSeq(logs', 1, Len(logs)) = logs)]_vars

\* A returned call in which every file gave two messages: the bound is met.
C9_Witness ==
    /\ log_callback = "normal"
    /\ pc = "returned"
    /\ Len(files) = 2
    /\ Len(logs) = 2 * total_files

\* C10: the returned list does not depend on the callback: the identical
\* batch returns the identical list with and without one; with
\* log_callback=None nothing is emitted and the call is never cut short.
C10_CallbackIndependent ==
    /\ (/\ pc = "returned"
        /\ earlier # <<>>
        /\ earlier[1].log_callback # log_callback) => earlier[1].result = result
    /\ log_callback = "none" => (logs = <<>> /\ pc # "aborted")
    /\ (log_callback = "none" /\ pc = "returned") => idx = total_files

\* A batch with an unsupported and a failing file, returned without a
\* callback after it was returned with one.
C10_Witness ==
    /\ pc = "returned"
    /\ log_callback = "none"
    /\ earlier # <<>>
    /\ earlier[1].log_callback = "normal"
    /\ \E k \in DOMAIN files : ~Supported(files[k])
    /\ \E k \in DOMAIN files : Fails(files[k])
    /\ result # <<>>

====
